---- MODULE Spec2Model ----
(***************************************************************************)
(* Git-Scape-API: the digest engine (src/app/converter.py, the budgeted    *)
(* engine; src/converter.py, the staged engine that sits beside main.py)   *)
(* and the WebSocket progress bridge (src/main.py, src/app/api.py: the two *)
(* handlers are statement-for-statement the same).                         *)
(*                                                                         *)
(* Two specifications share the definitions:                               *)
(*   Spec        one streaming session: handler coroutine, sender task,    *)
(*               worker thread, client.                                    *)
(*   FairSpec    Spec with the fairness of the event loop and the thread.  *)
(*   DigestSpec  generate_markdown_digest run on its own against a         *)
(*               recording progress sink, over every bounded repository.   *)
(***************************************************************************)
EXTENDS Integers, Sequences, FiniteSets, TLC

VARIABLES
    converter,        \* which converter module the import resolves to
    repo,             \* the clone directory: its files in the order os.walk lists them
    cloned,           \* whether the clone directory was actually populated
    handler_pc,       \* websocket_converter: the await the coroutine is at
    sender_pc,        \* queue_to_websocket_sender: the await the task is at
    worker_pc,        \* the executor thread running generate_markdown_digest
    produced,         \* number of progress callbacks the worker has made
    progress_queue,   \* asyncio.Queue contents, oldest first
    unfinished_tasks, \* asyncio.Queue's counter behind join()/task_done()
    sends,            \* every websocket.send_text call so far, with how it ended
    client_gone,      \* the client has disconnected
    client_state,     \* websocket.client_state
    ws_open,          \* the server side of the connection is open
    send_faults,      \* sends that raised something other than a disconnect
    stop_mark,        \* value of produced when the sender stopped on a disconnect, else -1
    gen_pc,           \* DigestSpec: the stand-alone run of generate_markdown_digest
    sink,             \* DigestSpec: percentages the progress sink received
    digest,           \* what generate_markdown_digest returned (and what its traversal admitted)
    rerun,            \* DigestSpec: what a second run over the same tree returned
    job               \* the run of generate_markdown_digest under way: its callbacks and result

vars == << converter, repo, cloned, handler_pc, sender_pc, worker_pc, produced,
           progress_queue, unfinished_tasks, sends, client_gone, client_state,
           ws_open, send_faults, stop_mark, gen_pc, sink, digest,
           rerun, job >>

----------------------------------------------------------------------------
(* Bounds of the model *)

\* longest repository (number of directory entries) DigestSpec draws
MaxFiles == 3
\* longest repository a streaming session draws
SessionMaxFiles == 3
\* sends on a live connection that may raise a non-disconnect error, per session
MaxSendFaults == 1
\* longest repository ScanSpec draws
MaxScanFiles == 2

----------------------------------------------------------------------------
(* Program constants.  Sizes are counted in units chosen so that every      *)
(* ceiling can be reached by a bounded repository; the order of the         *)
(* ceilings is that of the source:                                          *)
(*   src/converter.py MAX_FILE_SIZE (100 KB) < app MAX_FILE_SIZE (15 MB)    *)
(*   < MAX_TOTAL_SIZE_BYTES (1000 MB).                                      *)

MAX_FILE_SIZE == 3
MAX_FILES == 2
\* defined by src/app/converter.py; the deepest directory of the model lies below it
MAX_DIRECTORY_DEPTH == 1
MAX_TOTAL_SIZE_BYTES == 5
R_MAX_FILE_SIZE == 2
\* asyncio.Queue() is built with no maxsize argument: 0, which asyncio reads as "no limit"
maxsize == 0

IGNORED_DIRS == { ".git", "__pycache__" }

IGNORED_FILES ==
  {
    ".DS_Store", "Zone.Identifier", ".jpeg", ".jpg", ".png", ".gif", ".bmp", ".tiff",
    ".tif", ".webp", ".heif", ".heic", ".avif", ".svg", ".psd", ".raw", ".eps", ".pdf",
    ".ico", ".exr", ".tga", ".dds", ".wdp", ".dng", ".ppm"
  }

TEXT_EXTS ==
  {
    ".adoc", ".asciidoc", ".ada", ".adb", ".ads", ".asp", ".aspx", ".asm", ".astro",
    ".bash", ".bat", ".bib", ".build", ".c", ".cbl", ".cfg", ".clj", ".cls", ".cob",
    ".conf", ".cpp", ".cql", ".cr", ".cs", ".cshtml", ".csproj", ".css", ".csv", ".cypher",
    ".d", ".dart", ".dockerfile", ".ejs", ".elm", ".env", ".erb", ".erl", ".ex", ".exs",
    ".f", ".f90", ".f95", ".fs", ".fsi", ".fsproj", ".gitattributes", ".gitignore", ".go",
    ".gradle", ".graphql", ".groovy", ".h", ".handlebars", ".hbs", ".hcl", ".hpp", ".hrl",
    ".hs", ".htm", ".html", ".idr", ".ini", ".java", ".jinja", ".js", ".json", ".jsp",
    ".jsx", ".kt", ".less", ".lhs", ".lidr", ".liquid", ".lua", ".m", ".markdown", ".md",
    ".ml", ".mli", ".mustache", ".nim", ".p", ".pas", ".php", ".pl", ".plist", ".plsql",
    ".pom", ".pp", ".properties", ".ps1", ".psm1", ".psql", ".pug", ".py", ".r", ".rb",
    ".re", ".rei", ".Rmd", ".rs", ".rst", ".S", ".sass", ".sbt", ".scala", ".scss", ".sh",
    ".slim", ".sln", ".sol", ".sql", ".strings", ".sty", ".svelte", ".svg", ".swift",
    ".tcl", ".tex", ".tf", ".tfvars", ".toml", ".ts", ".tsv", ".tsql", ".tsx", ".txt", ".v",
    ".vbhtml", ".vbcsproj", ".vcxproj", ".vhd", ".vhdl", ".vim", ".vimrc", ".vue", ".xaml",
    ".xcodeproj", ".xcworkspace", ".xml", ".xul", ".yaml", ".yml", ".zig", ".zsh"
  }

R_IGNORED_DIRS == { ".git", "__pycache__" }

R_IGNORED_FILES ==
  {
    ".DS_Store", "Zone.Identifier", ".jpeg", ".jpg", ".png", ".gif", ".bmp", ".tiff",
    ".tif", ".webp", ".heif", ".heic", ".avif", ".svg", ".psd", ".raw", ".eps", ".pdf",
    ".ico", ".exr", ".tga", ".dds", ".wdp", ".dng", ".ppm"
  }

R_TEXT_EXTS ==
  {
    ".py", ".js", ".ts", ".java", ".go", ".rs", ".c", ".cpp", ".h", ".hpp", ".cs", ".fs",
    ".fsi", ".swift", ".kt", ".kts", ".rb", ".php", ".pl", ".pm", ".lua", ".scala",
    ".groovy", ".dart", ".r", ".sh", ".bash", ".zsh", ".fish", ".bat", ".cmd", ".ps1",
    ".psm1", ".psd1", ".tcl", ".m", ".elm", ".ex", ".exs", ".cr", ".nim", ".v", ".sv",
    ".vhdl", ".gd", ".clj", ".cljs", ".cljc", ".html", ".htm", ".css", ".scss", ".sass",
    ".less", ".vue", ".jsx", ".tsx", ".svelte", ".ejs", ".erb", ".hbs", ".handlebars",
    ".mustache", ".jinja", ".j2", ".twig", ".md", ".markdown", ".rst", ".adoc", ".asciidoc",
    ".tex", ".bib", ".org", ".txt", ".json", ".jsonc", ".json5", ".yml", ".yaml", ".xml",
    ".xsd", ".xsl", ".toml", ".ini", ".cfg", ".conf", ".config", ".properties", ".env",
    ".graphql", ".gql", ".hcl", ".tf", ".tfvars", ".csv", ".tsv", ".log", ".Makefile",
    ".mk", ".cmake", ".gradle", ".gradle.kts", ".pom", ".csproj", ".vbproj", ".fsproj",
    ".sln", ".xcconfig", ".gitignore", ".gitattributes", ".gitmodules", ".editorconfig",
    ".prettierrc", ".eslintrc", ".babelrc", ".stylelintrc", ".dockerfile", ".vagrantfile",
    ".sql", ".ddl", ".patch", ".diff", ".sub", ".srt", ".vtt", ".desktop", ".service",
    ".list", ".theme", ".plantuml", ".puml", ".iuml", ".dot", ".gv", ".http", ".rest",
    ".proto", ".asc", ".pem"
  }

\* generate_markdown_digest's list of documents promoted to the front
common_files ==
  << "README.md", "CONTRIBUTING.md", "CODE_OF_CONDUCT.md", "SECURITY.md",
     "LICENSE", "LICENSE.md", "LICENSE.txt" >>

----------------------------------------------------------------------------
(* Paths and the filesystem the engine reads *)

\* the file names the bounded repositories use
Names == { "README.md", "readme.md", "LICENSE", "main.py", "logo.png", "icon.svg", "boot.S" }

\* pathlib's Path.suffix: the last dot-component of the name, "" when there is none
suffix(name) ==
    CASE name = "README.md" -> ".md"
      [] name = "readme.md" -> ".md"
      [] name = "LICENSE"   -> ""
      [] name = "main.py"   -> ".py"
      [] name = "logo.png"  -> ".png"
      [] name = "icon.svg"  -> ".svg"
      [] name = "boot.S"    -> ".S"

\* str.lower() on the strings the model holds; every other one is lower case already
lower(s) ==
    CASE s = "README.md"          -> "readme.md"
      [] s = "CONTRIBUTING.md"    -> "contributing.md"
      [] s = "CODE_OF_CONDUCT.md" -> "code_of_conduct.md"
      [] s = "SECURITY.md"        -> "security.md"
      [] s = "LICENSE"            -> "license"
      [] s = "LICENSE.md"         -> "license.md"
      [] s = "LICENSE.txt"        -> "license.txt"
      [] s = "boot.S"             -> "boot.s"
      [] s = ".S"                 -> ".s"
      [] s = ".Rmd"               -> ".rmd"
      [] OTHER                    -> s

\* What the filesystem answers for one directory entry over the run:
\*   "ok"          a regular readable file
\*   "broken"      listed by the walk, but stat() fails with FileNotFoundError
\*                 from the first check on (a dangling symlink, an entry removed
\*                 right after the listing)
\*   "vanished"    a regular file until the pre-count pass is over, gone when the
\*                 content pass reaches it
\*   "unreadable"  a regular file whose open() raises PermissionError
\*   "symlink"     a symbolic link to a regular readable file outside the
\*                 repository: stat(), is_file() and open() follow it
\*   "looped"      a symbolic link that leads back to itself: stat() fails with
\*                 OSError (ELOOP), which is no FileNotFoundError; pathlib's
\*                 is_file() and exists() answer False
FsStates == { "ok", "broken", "vanished", "unreadable", "symlink", "looped" }

File(d, n, sz, st) == [dir |-> d, name |-> n, size |-> sz, fs |-> st]

\* the directory entries repositories are built from; dir "" is the repository root
Files ==
    { File("", n, 1, st) : n \in {"README.md", "readme.md"}, st \in {"ok", "broken", "unreadable"} }
    \cup { File("docs", "README.md", 1, "ok"), File("", "README.md", 3, "ok"),
           File("", "README.md", 4, "ok") }
    \cup { File(d, "main.py", sz, "ok") : d \in {"", "src"}, sz \in {1, 3, 4} }
    \cup { File(d, "main.py", 1, st) : d \in {"", "src"}, st \in {"broken", "vanished", "unreadable"} }
    \cup { File("", "logo.png", 1, "ok"), File("", "LICENSE", 1, "ok") }

\* os.walk is top-down: the root's own files come before those of any subdirectory,
\* and no path occurs twice; within a directory the order is the filesystem's
WalkOrdered(r) ==
    /\ \A i, j \in 1..Len(r) : i < j => ~(r[i].dir = r[j].dir /\ r[i].name = r[j].name)
    /\ \A i, j \in 1..Len(r) : i < j => ~(r[i].dir # "" /\ r[j].dir = "")
    /\ \A i, j, k \in 1..Len(r) : (i < j /\ j < k /\ r[i].dir = r[k].dir) => r[j].dir = r[i].dir

\* the walk-ordered sequences over S of length n, and of length up to n
RECURSIVE WalksOfLen(_, _)
WalksOfLen(S, n) ==
    IF n = 0
    THEN { << >> }
    ELSE { w \in { Append(r, f) : r \in WalksOfLen(S, n - 1), f \in S } : WalkOrdered(w) }
WalksUpTo(S, n) == UNION { WalksOfLen(S, k) : k \in 0..n }

Repos == WalksUpTo(Files, MaxFiles)

----------------------------------------------------------------------------
(* Values the two engines build *)

\* one call of the progress sink: progress_callback(message, percentage)
Event(p, k) == [percentage |-> p, kind |-> k]

\* one "## <relative path>" block of the digest; body tells whether the content
\* followed the header ("content") or the read failed after it ("header")
Section(f, b) == [dir |-> f.dir, name |-> f.name, body |-> b]

\* Python's int((n / d) * k): a float division, a float product, truncation.
\* It equals the integer quotient (n * k) \div d except where the float product
\* falls just short of a whole number; for d < 40 and n <= d + 2 and k in {60, 90}
\* those are exactly the pairs listed (k = 90).
PyScaled(n, d, k) ==
    IF k = 90 /\ << n, d >> \in { << 7, 5 >>, << 7, 10 >>, << 14, 20 >>, << 21, 30 >> }
    THEN ((n * k) \div d) - 1
    ELSE (n * k) \div d

InCommonFiles(name) == \E i \in 1..Len(common_files) : common_files[i] = name

\* Path.is_file() / Path.exists() while the root listing and the pre-count run
is_file_at_listing(f) == f.fs \notin { "broken", "looped" }
\* Path.is_file() / Path.exists() when the content pass reaches the entry
is_file_at_trace(f) == f.fs \notin { "broken", "vanished", "looped" }
\* open() and read() succeed: before the content pass / during it
readable_early(f) == f.fs \in { "ok", "vanished", "symlink" }
readable_late(f) == f.fs \in { "ok", "symlink" }

----------------------------------------------------------------------------
(* src/app/converter.py *)

is_text_file(name) == lower(suffix(name)) \in TEXT_EXTS

\* the ignore test both passes apply to a file name
is_ignored(name) == lower(suffix(name)) \in IGNORED_FILES \/ name \in IGNORED_FILES

\* a walk that prunes nothing
EveryDir(f) == TRUE

\* os.walk with dirs[:] pruned of IGNORED_DIRS
NotIgnoredDir(f) == f.dir \notin IGNORED_DIRS
walk(r) == SelectSeq(r, NotIgnoredDir)

\* repo_files: the root's regular files keyed by lower-cased name; a later entry
\* with the same key replaces an earlier one
AtRootIsFile(f) == f.dir = "" /\ is_file_at_listing(f)
repo_files_get(r, key) ==
    LET hits == SelectSeq(SelectSeq(r, AtRootIsFile), LAMBDA f : lower(f.name) = key)
    IN  IF hits = << >> THEN << >> ELSE << hits[Len(hits)] >>

\* the loop over common_files, from entry i on
RECURSIVE common_phase(_, _)
common_phase(r, i) ==
    IF i > Len(common_files)
    THEN [events |-> << >>, sections |-> << >>]
    ELSE LET hit  == repo_files_get(r, lower(common_files[i]))
             rest == common_phase(r, i + 1)
         IN  IF hit = << >>
             THEN rest
             ELSE IF readable_early(hit[1])
                  THEN [events   |-> << Event(5, "common") >> \o rest.events,
                        sections |-> << Section(hit[1], "content") >> \o rest.sections]
                  ELSE [events   |-> rest.events,
                        sections |-> << Section(hit[1], "header") >> \o rest.sections]

\* a pre-count that leaves out the files it cannot open
counted_if_readable(f) ==
    /\ ~is_ignored(f.name)
    /\ is_text_file(f.name)
    /\ ~InCommonFiles(f.name)
    /\ is_file_at_listing(f)
    /\ readable_early(f)

\* the pre-count pass: total_files
counted(f) ==
    /\ ~is_ignored(f.name)
    /\ is_text_file(f.name)
    /\ ~InCommonFiles(f.name)
    /\ is_file_at_listing(f)
pre_count(r) == Len(SelectSeq(walk(r), counted))

\* the callback generate_markdown_digest hands to trace_repo
process_file(f, total, st) ==
    IF InCommonFiles(f.name)
    THEN st
    ELSE LET fc == st.file_count + 1
         IN  [st EXCEPT
                !.file_count = fc,
                !.sections = Append(@, Section(f, IF readable_late(f) THEN "content" ELSE "header")),
                !.events = IF total > 0
                           THEN Append(@, Event(PyScaled(fc, total, 90) + 10, "file"))
                           ELSE @]

\* a ceiling test made after the admission instead of before it
over_budget_after_admission(st, f) ==
    \/ st.total_files > MAX_FILES
    \/ st.total_size > MAX_TOTAL_SIZE_BYTES

\* trace_repo's test of the two global ceilings, made before the file is admitted
over_budget(st, f) ==
    \/ st.total_files >= MAX_FILES
    \/ st.total_size + f.size > MAX_TOTAL_SIZE_BYTES

\* a traversal that only skips the file that does not fit
after_ceiling_next_entry(files, i) == i + 1

\* the entry trace_repo goes on with once a ceiling is hit: none, it returns
after_ceiling(files, i) == Len(files) + 1

\* trace_repo from entry i of the walk on; st carries stats, the files handed to
\* file_callback and what the callback built
RECURSIVE trace_repo(_, _, _, _)
trace_repo(files, i, total, st) ==
    IF i > Len(files)
    THEN st
    ELSE LET f == files[i]
         IN  IF \/ is_ignored(f.name)
                \/ ~is_text_file(f.name)
                \/ ~is_file_at_trace(f)
                \/ f.size > MAX_FILE_SIZE
             THEN trace_repo(files, i + 1, total, st)
             ELSE IF over_budget(st, f)
                  THEN trace_repo(files, after_ceiling(files, i), total,
                           [st EXCEPT !.stopped = TRUE,
                                      !.stopped_at = IF @ = 0 THEN i ELSE @])
                  ELSE trace_repo(files, i + 1, total,
                           process_file(f, total,
                               [st EXCEPT !.total_files = @ + 1, !.total_size = @ + f.size,
                                          !.admitted = Append(@, f)]))

generate_markdown_digest(r) ==
    LET c == common_phase(r, 1)
        t == trace_repo(walk(r), 1, pre_count(r),
                        [total_files |-> 0, total_size |-> 0, file_count |-> 0,
                         stopped |-> FALSE, stopped_at |-> 0, admitted |-> << >>,
                         events |-> c.events, sections |-> c.sections])
    IN  [events |-> t.events, sections |-> t.sections, stopped |-> t.stopped,
         stats |-> [total_files |-> t.total_files, total_size |-> t.total_size],
         admitted |-> t.admitted, stopped_at |-> t.stopped_at,
         common_sections |-> Len(c.sections),
         total_files |-> pre_count(r), file_count |-> t.file_count,
         tree |-> { }, raised |-> FALSE]

----------------------------------------------------------------------------
(* src/converter.py *)

R_is_text_file(name) == lower(suffix(name)) \in R_TEXT_EXTS

R_NotIgnoredDir(f) == f.dir \notin R_IGNORED_DIRS
R_walk(r) == SelectSeq(r, R_NotIgnoredDir)

\* the gathering loop of generate_markdown_digest: all_files
R_gathered(f) ==
    /\ f.name \notin R_IGNORED_FILES
    /\ f.fs # "broken"
    /\ f.size <= R_MAX_FILE_SIZE
    /\ R_is_text_file(f.name)
R_all_files(r) == SelectSeq(R_walk(r), R_gathered)

\* path.stat() in the gathering loop raises something other than
\* FileNotFoundError, which nothing in generate_markdown_digest catches
R_stat_raises(f) == f.name \notin R_IGNORED_FILES /\ f.fs = "looped"
R_gather_raises(r) == \E i \in 1..Len(R_walk(r)) : R_stat_raises(R_walk(r)[i])

\* print_tree: the files it lists (each directory's in sorted order), as paths
R_print_tree(r) ==
    { [dir |-> R_walk(r)[i].dir, name |-> R_walk(r)[i].name] :
        i \in { k \in 1..Len(R_walk(r)) : R_walk(r)[k].name \notin R_IGNORED_FILES } }

\* the content loop from index idx (0-based, as enumerate counts) on
RECURSIVE R_content_loop(_, _)
R_content_loop(all, idx) ==
    IF idx >= Len(all)
    THEN [events |-> << >>, sections |-> << >>]
    ELSE LET f    == all[idx + 1]
             rest == R_content_loop(all, idx + 1)
         IN  IF readable_late(f)
             THEN [events   |-> << Event(30 + PyScaled(idx + 1, Len(all), 60), "file") >> \o rest.events,
                   sections |-> << Section(f, "content") >> \o rest.sections]
             ELSE rest

R_generate_markdown_digest(r) ==
    LET all  == R_all_files(r)
        body == IF Len(all) = 0
                THEN [events |-> << Event(90, "stage") >>, sections |-> << >>]
                ELSE R_content_loop(all, 0)
        head == << Event(0, "stage"), Event(10, "stage"), Event(20, "stage"), Event(30, "stage") >>
    IN  IF R_gather_raises(r)
        THEN [events |-> head, sections |-> << >>, stopped |-> FALSE,
              tree |-> R_print_tree(r), raised |-> TRUE]
        ELSE [events   |-> head \o body.events \o << Event(95, "stage"), Event(100, "stage") >>,
              sections |-> body.sections,
              stopped  |-> FALSE,
              tree     |-> R_print_tree(r),
              raised   |-> FALSE]

----------------------------------------------------------------------------
(* The engine a run uses *)

Converters == { "app", "root" }

Run(c, r) == IF c = "app" THEN generate_markdown_digest(r) ELSE R_generate_markdown_digest(r)

\* "".join(digest_lines): the title line, then the sections in the order written
digest_lines(d) == << [dir |-> "", name |-> "# Repository Digest", body |-> "title"] >> \o d.sections

\* markdown_digest before generate_markdown_digest has returned
NoDigest == [events |-> << >>, sections |-> << >>, stopped |-> FALSE, tree |-> { }, raised |-> FALSE]

----------------------------------------------------------------------------
(* The streaming session: src/main.py websocket_converter (src/app/api.py   *)
(* holds the same handler)                                                  *)

\* the repositories a session is run against
SessionFiles ==
    { File("", "LICENSE", 1, "ok"), File("", "main.py", 1, "ok"),
      File("src", "main.py", 1, "ok"), File("src", "main.py", 4, "ok") }
SessionRepos == WalksUpTo(SessionFiles, SessionMaxFiles)

\* what travels on the queue and on the websocket
None == [type |-> "None", seq |-> 0, percentage |-> 0]
Msg(t, n, p) == [type |-> t, seq |-> n, percentage |-> p]
Sent(m, o) == [type |-> m.type, seq |-> m.seq, percentage |-> m.percentage, outcome |-> o]

\* The progress callbacks of this session's run of generate_markdown_digest.
\* The worker reads the clone directory (job is that run); when nothing was
\* cloned into it the directory does not exist and os.walk lists nothing (repo
\* is empty).
WorkerEvents == job.events

\* converter.clone_repository(...) called as a plain function.  src/converter.py's
\* clone_repository contains yield: the call only builds a generator object, runs
\* none of its body and cannot raise.  src/app/converter.py's runs git with
\* check=True and raises when git fails.
clone_repository_outcomes(c) == IF c = "root" THEN { "generator" } ELSE { "cloned", "raised" }

\* How one await websocket.send_text(...) can end.  With the client listening it
\* succeeds, or raises an error that is not a disconnect; with the client gone it
\* raises WebSocketDisconnect or, depending on the server stack, another error.
send_text_outcomes ==
    IF client_gone
    THEN { "disconnect", "error" }
    ELSE { "ok" } \cup (IF send_faults < MaxSendFaults THEN { "error" } ELSE { })

Deliver(o, m) == sends' = Append(sends, Sent(m, o))
Fault(o) == send_faults' = IF o = "error" /\ ~client_gone THEN send_faults + 1 ELSE send_faults

\* where the handler's try statement takes control after a send
except_route(o, next) ==
    CASE o = "ok"         -> next
      [] o = "disconnect" -> "finally"
      [] o = "error"      -> "send_error"

\* asyncio.Queue.full(): a maxsize of 0 or less means the queue is never full
queue_full(q) == maxsize > 0 /\ Len(q) >= maxsize

\* a queue that hands out the newest item first
queue_get_newest_first(q) == [item |-> q[Len(q)], rest |-> SubSeq(q, 1, Len(q) - 1)]

\* await progress_queue.get(): the oldest item
queue_get(q) == [item |-> Head(q), rest |-> Tail(q)]

\* a join that does not wait
join_returns_at_once == TRUE

\* await progress_queue.join() returns once every item put has been marked done
join_returns == unfinished_tasks = 0

\* await sender_task returns once the task has finished
sender_task_finished == sender_pc = "done"

\* a sender that ends on the sentinel without marking it done
sentinel_left_unfinished(n) == n

\* the sender's progress_queue.task_done() for the sentinel it has just taken
sentinel_task_done(n) == n - 1

\* a handler that falls into the error report after a successful digest_complete
after_send_complete_then_error(o) == IF o = "ok" THEN "send_error" ELSE except_route(o, "finally")

\* after the send of digest_complete
after_send_complete(o) == except_route(o, "finally")

Accept ==
    /\ handler_pc = "accept"
    /\ handler_pc' = "send_start"
    /\ client_state' = "CONNECTED"
    /\ ws_open' = TRUE
    /\ UNCHANGED << converter, repo, cloned, sender_pc, worker_pc, produced, progress_queue,
                    unfinished_tasks, sends, client_gone, send_faults, stop_mark,
                    gen_pc, sink, digest, rerun, job >>

SendStart ==
    /\ handler_pc = "send_start"
    /\ \E o \in send_text_outcomes :
          /\ Deliver(o, Msg("progress", 0, 0))
          /\ Fault(o)
          /\ handler_pc' = except_route(o, "clone")
    /\ UNCHANGED << converter, repo, cloned, sender_pc, worker_pc, produced, progress_queue,
                    unfinished_tasks, client_gone, client_state, ws_open, stop_mark,
                    gen_pc, sink, digest, rerun, job >>

Clone ==
    /\ handler_pc = "clone"
    /\ \E c \in clone_repository_outcomes(converter) :
          /\ cloned' = (c = "cloned")
          /\ repo' \in (IF c = "cloned" THEN SessionRepos ELSE { << >> })
          /\ handler_pc' = IF c = "raised" THEN "send_error" ELSE "send_cloned"
    /\ UNCHANGED << converter, sender_pc, worker_pc, produced, progress_queue,
                    unfinished_tasks, sends, client_gone, client_state, ws_open,
                    send_faults, stop_mark, gen_pc, sink, digest, rerun, job >>

SendCloned ==
    /\ handler_pc = "send_cloned"
    /\ \E o \in send_text_outcomes :
          /\ Deliver(o, Msg("progress", 0, 10))
          /\ Fault(o)
          /\ handler_pc' = except_route(o, "start")
    /\ UNCHANGED << converter, repo, cloned, sender_pc, worker_pc, produced, progress_queue,
                    unfinished_tasks, client_gone, client_state, ws_open, stop_mark,
                    gen_pc, sink, digest, rerun, job >>

\* the queue is created, the sender task is created, the worker is handed to the executor
Start ==
    /\ handler_pc = "start"
    /\ handler_pc' = "await_worker"
    /\ progress_queue' = << >>
    /\ unfinished_tasks' = 0
    /\ sender_pc' = "get"
    /\ worker_pc' = "running"
    /\ job' = Run(converter, repo)
    /\ UNCHANGED << converter, repo, cloned, produced, sends, client_gone, client_state,
                    ws_open, send_faults, stop_mark, gen_pc, sink, digest, rerun >>

\* a handler that goes on to the sentinel without awaiting the worker's result
worker_not_awaited == worker_pc \in { "running", "returned" }

\* await loop.run_in_executor(...) has a result: generate_markdown_digest returned
worker_result_ready == worker_pc = "returned"

\* await loop.run_in_executor(...) resumes; on a result the sentinel is put at once
AwaitWorker ==
    /\ handler_pc = "await_worker"
    /\ \/ /\ worker_result_ready
          /\ progress_queue' = Append(progress_queue, None)
          /\ unfinished_tasks' = unfinished_tasks + 1
          /\ handler_pc' = "join"
       \/ /\ worker_pc = "raised"
          /\ handler_pc' = "send_error"
          /\ UNCHANGED << progress_queue, unfinished_tasks >>
    /\ UNCHANGED << converter, repo, cloned, sender_pc, worker_pc, produced, sends,
                    client_gone, client_state, ws_open, send_faults, stop_mark, gen_pc, sink, digest, rerun, job >>

Join ==
    /\ handler_pc = "join"
    /\ join_returns
    /\ handler_pc' = "await_sender"
    /\ UNCHANGED << converter, repo, cloned, sender_pc, worker_pc, produced, progress_queue,
                    unfinished_tasks, sends, client_gone, client_state, ws_open,
                    send_faults, stop_mark, gen_pc, sink, digest, rerun, job >>

AwaitSender ==
    /\ handler_pc = "await_sender"
    /\ sender_task_finished
    /\ handler_pc' = "send_complete"
    /\ UNCHANGED << converter, repo, cloned, sender_pc, worker_pc, produced, progress_queue,
                    unfinished_tasks, sends, client_gone, client_state, ws_open,
                    send_faults, stop_mark, gen_pc, sink, digest, rerun, job >>

SendComplete ==
    /\ handler_pc = "send_complete"
    /\ \E o \in send_text_outcomes :
          /\ Deliver(o, Msg("digest_complete", 0, 100))
          /\ Fault(o)
          /\ handler_pc' = after_send_complete(o)
    /\ UNCHANGED << converter, repo, cloned, sender_pc, worker_pc, produced, progress_queue,
                    unfinished_tasks, client_gone, client_state, ws_open, stop_mark,
                    gen_pc, sink, digest, rerun, job >>

\* except Exception: the error message is sent when client_state is CONNECTED;
\* whatever that send raises is caught and logged
SendError ==
    /\ handler_pc = "send_error"
    /\ IF client_state = "CONNECTED"
       THEN \E o \in send_text_outcomes :
               /\ Deliver(o, Msg("error", 0, 100))
               /\ Fault(o)
       ELSE UNCHANGED << sends, send_faults >>
    /\ handler_pc' = "finally"
    /\ UNCHANGED << converter, repo, cloned, sender_pc, worker_pc, produced, progress_queue,
                    unfinished_tasks, client_gone, client_state, ws_open, stop_mark,
                    gen_pc, sink, digest, rerun, job >>

\* a finally block that leaves the sender task as it finds it
sender_left_running(pc) == pc

\* finally: if sender_task and not sender_task.done(): cancel() and await it
sender_cancel_if_running(pc) == IF pc \in { "get", "sending" } THEN "cancelled" ELSE pc

\* finally: a sender task still running is cancelled and awaited, the websocket is
\* closed when client_state is CONNECTED
Finally ==
    /\ handler_pc = "finally"
    /\ handler_pc' = "returned"
    /\ sender_pc' = sender_cancel_if_running(sender_pc)
    /\ ws_open' = IF client_state = "CONNECTED" THEN FALSE ELSE ws_open
    /\ UNCHANGED << converter, repo, cloned, worker_pc, produced, progress_queue,
                    unfinished_tasks, sends, client_gone, client_state, send_faults,
                    stop_mark, gen_pc, sink, digest, rerun, job >>

\* the messages that reached the client, in the order they were written
WasDelivered(s) == s.outcome = "ok"
delivered == SelectSeq(sends, WasDelivered)

Handler ==
    \/ Accept \/ SendStart \/ Clone \/ SendCloned \/ Start \/ AwaitWorker
    \/ Join \/ AwaitSender \/ SendComplete \/ SendError \/ Finally

\* queue_to_websocket_sender: get an item; the sentinel ends the task; any other
\* item is sent.  A disconnect marks the item done and ends the task; any other
\* error is logged and the loop goes on.
SenderGet ==
    /\ sender_pc = "get"
    /\ progress_queue # << >>
    /\ LET g == queue_get(progress_queue)
       IN  /\ progress_queue' = g.rest
           /\ IF g.item.type = "None"
              THEN /\ unfinished_tasks' = sentinel_task_done(unfinished_tasks)
                   /\ sender_pc' = "done"
                   /\ UNCHANGED << sends, send_faults, stop_mark >>
              ELSE \E o \in send_text_outcomes :
                      /\ Deliver(o, Msg("progress", g.item.seq, g.item.percentage))
                      /\ Fault(o)
                      /\ IF o = "disconnect"
                         THEN /\ unfinished_tasks' = unfinished_tasks - 1
                              /\ sender_pc' = "done"
                              /\ stop_mark' = produced
                         ELSE /\ sender_pc' = "sending"
                              /\ UNCHANGED << unfinished_tasks, stop_mark >>
    /\ UNCHANGED << converter, repo, cloned, handler_pc, worker_pc, produced, client_gone,
                    client_state, ws_open, gen_pc, sink, digest, rerun, job >>

\* the send has returned: task_done(), then asyncio.sleep(0.01), then the next get
SenderTaskDone ==
    /\ sender_pc = "sending"
    /\ unfinished_tasks' = unfinished_tasks - 1
    /\ sender_pc' = "get"
    /\ UNCHANGED << converter, repo, cloned, handler_pc, worker_pc, produced, progress_queue,
                    sends, client_gone, client_state, ws_open, send_faults, stop_mark,
                    gen_pc, sink, digest, rerun, job >>

Sender == SenderGet \/ SenderTaskDone

\* sync_progress_callback: the worker thread has the event loop run
\* progress_queue.put(item) and blocks until that put has returned
sync_progress_callback ==
    /\ worker_pc = "running"
    /\ produced < Len(WorkerEvents)
    /\ ~queue_full(progress_queue)
    /\ progress_queue' = Append(progress_queue,
                                Msg("progress", produced + 1, WorkerEvents[produced + 1].percentage))
    /\ unfinished_tasks' = unfinished_tasks + 1
    /\ produced' = produced + 1
    /\ UNCHANGED << converter, repo, cloned, handler_pc, sender_pc, worker_pc, sends,
                    client_gone, client_state, ws_open, send_faults, stop_mark, gen_pc, sink, digest, rerun, job >>

\* generate_markdown_digest returns the joined digest
WorkerReturn ==
    /\ worker_pc = "running"
    /\ produced = Len(WorkerEvents)
    /\ ~job.raised
    /\ worker_pc' = "returned"
    /\ digest' = job
    /\ UNCHANGED << converter, repo, cloned, handler_pc, sender_pc, produced, progress_queue,
                    unfinished_tasks, sends, client_gone, client_state, ws_open,
                    send_faults, stop_mark, gen_pc, sink, rerun, job >>

\* ... or the final join of the digest parts raises (MemoryError on a digest of up
\* to MAX_TOTAL_SIZE_BYTES), which run_in_executor re-raises in the handler
WorkerRaise ==
    /\ worker_pc = "running"
    /\ produced = Len(WorkerEvents)
    /\ worker_pc' = "raised"
    /\ UNCHANGED << converter, repo, cloned, handler_pc, sender_pc, produced, progress_queue,
                    unfinished_tasks, sends, client_gone, client_state, ws_open,
                    send_faults, stop_mark, gen_pc, sink, digest, rerun, job >>

Worker == sync_progress_callback \/ WorkerReturn \/ WorkerRaise

\* the client goes away at any moment of the session
ClientDisconnect ==
    /\ handler_pc \notin { "accept", "returned" }
    /\ ~client_gone
    /\ client_gone' = TRUE
    /\ UNCHANGED << converter, repo, cloned, handler_pc, sender_pc, worker_pc, produced,
                    progress_queue, unfinished_tasks, sends, client_state, ws_open,
                    send_faults, stop_mark, gen_pc, sink, digest, rerun, job >>

Init ==
    /\ converter \in Converters
    /\ repo = << >>
    /\ cloned = FALSE
    /\ handler_pc = "accept"
    /\ sender_pc = "none"
    /\ worker_pc = "idle"
    /\ produced = 0
    /\ progress_queue = << >>
    /\ unfinished_tasks = 0
    /\ sends = << >>
    /\ client_gone = FALSE
    /\ client_state = "CONNECTING"
    /\ ws_open = FALSE
    /\ send_faults = 0
    /\ stop_mark = -1
    /\ gen_pc = "off"
    /\ sink = << >>
    /\ digest = NoDigest
    /\ rerun = NoDigest
    /\ job = NoDigest

Next == Handler \/ Sender \/ Worker \/ ClientDisconnect

Spec == Init /\ [][Next]_vars

\* The event loop runs every task that is ready and the executor thread runs:
\* a step of the handler, the sender or the worker that stays possible is taken.
\* Nothing obliges the client to disconnect.
FairSpec == Spec /\ WF_vars(Handler) /\ WF_vars(Sender) /\ WF_vars(Worker)

----------------------------------------------------------------------------
(* generate_markdown_digest on its own, with a sink that records what it is given *)

DigestEvents == job.events

\* generate_markdown_digest(repo_url, repo_path, progress_callback) is called
GenCall ==
    /\ gen_pc = "called"
    /\ gen_pc' = "running"
    /\ job' = Run(converter, repo)
    /\ UNCHANGED << converter, repo, cloned, handler_pc, sender_pc, worker_pc, produced,
                    progress_queue, unfinished_tasks, sends, client_gone, client_state,
                    ws_open, send_faults, stop_mark, sink, digest, rerun >>

SinkCall ==
    /\ gen_pc = "running"
    /\ Len(sink) < Len(DigestEvents)
    /\ sink' = Append(sink, DigestEvents[Len(sink) + 1].percentage)
    /\ UNCHANGED << converter, repo, cloned, handler_pc, sender_pc, worker_pc, produced,
                    progress_queue, unfinished_tasks, sends, client_gone, client_state,
                    ws_open, send_faults, stop_mark, gen_pc, digest, rerun, job >>

GenReturn ==
    /\ gen_pc = "running"
    /\ Len(sink) = Len(DigestEvents)
    /\ gen_pc' = IF job.raised THEN "raised" ELSE "returned"
    /\ digest' = job
    /\ UNCHANGED << converter, repo, cloned, handler_pc, sender_pc, worker_pc, produced,
                    progress_queue, unfinished_tasks, sends, client_gone, client_state,
                    ws_open, send_faults, stop_mark, sink, rerun, job >>

\* the listings os.walk can give of the directory tree r: the same entries, each
\* directory's in any order
Entries(r) == { r[i] : i \in 1..Len(r) }
Relistings(r) == WalksOfLen(Entries(r), Len(r))

\* generate_markdown_digest is run once more over the same tree
GenRerun ==
    /\ gen_pc = "returned"
    /\ gen_pc' = "reran"
    /\ \E r2 \in Relistings(repo) : rerun' = Run(converter, r2)
    /\ UNCHANGED << converter, repo, cloned, handler_pc, sender_pc, worker_pc, produced,
                    progress_queue, unfinished_tasks, sends, client_gone, client_state,
                    ws_open, send_faults, stop_mark, sink, digest, job >>

DigestInit ==
    /\ converter \in Converters
    /\ repo \in Repos
    /\ cloned = TRUE
    /\ handler_pc = "accept"
    /\ sender_pc = "none"
    /\ worker_pc = "idle"
    /\ produced = 0
    /\ progress_queue = << >>
    /\ unfinished_tasks = 0
    /\ sends = << >>
    /\ client_gone = FALSE
    /\ client_state = "CONNECTING"
    /\ ws_open = FALSE
    /\ send_faults = 0
    /\ stop_mark = -1
    /\ gen_pc = "called"
    /\ sink = << >>
    /\ digest = NoDigest
    /\ rerun = NoDigest
    /\ job = NoDigest

DigestNext == GenCall \/ SinkCall \/ GenReturn \/ GenRerun

DigestSpec == DigestInit /\ [][DigestNext]_vars

\* The same run over repositories that hold the entries the scan treats
\* specially: ignored directories and files, symbolic links, deep directories,
\* entries that fail, letter-case variants.
ScanFiles ==
    { File("", n, 1, "ok") : n \in { "README.md", "readme.md", "LICENSE", "main.py",
                                    "logo.png", "icon.svg", "boot.S" } }
    \cup { File(d, "main.py", 1, "ok") : d \in { "src", ".git", "a/b" } }
    \cup { File("", "main.py", 1, st) : st \in { "symlink", "looped" } }
    \cup { File("src", "main.py", 1, st) : st \in { "vanished", "unreadable" } }
ScanRepos == WalksUpTo(ScanFiles, MaxScanFiles)

ScanInit ==
    /\ converter \in Converters
    /\ repo \in ScanRepos
    /\ cloned = TRUE
    /\ handler_pc = "accept"
    /\ sender_pc = "none"
    /\ worker_pc = "idle"
    /\ produced = 0
    /\ progress_queue = << >>
    /\ unfinished_tasks = 0
    /\ sends = << >>
    /\ client_gone = FALSE
    /\ client_state = "CONNECTING"
    /\ ws_open = FALSE
    /\ send_faults = 0
    /\ stop_mark = -1
    /\ gen_pc = "called"
    /\ sink = << >>
    /\ digest = NoDigest
    /\ rerun = NoDigest
    /\ job = NoDigest

ScanSpec == ScanInit /\ [][DigestNext]_vars

----------------------------------------------------------------------------
(* Runs of generate_markdown_digest under the sinks a caller can hand it *)

\* the sink a run is given: the handler's callback with a queue that takes the
\* event, the same callback when the enqueue raises, or no callback at all
SinkKinds == { "working", "enqueue_raises", "absent" }

\* asyncio.run_coroutine_threadsafe(progress_queue.put(...), loop).result()
put_outcome(kind) == IF kind = "enqueue_raises" THEN "raised" ELSE "returned"

\* a callback that lets the exception of the enqueue through to its caller
callback_unguarded(o) == o

\* sync_progress_callback: the enqueue is made inside try / except Exception,
\* which logs; the callback returns either way
callback_outcome(o) == "returned"

\* how one progress_callback(message, percentage) ends for the engine
sink_call(kind) == IF kind = "absent" THEN "not_called" ELSE callback_outcome(put_outcome(kind))

\* src/app/converter.py, the loop over common_files: the header and the content
\* are appended, then the callback is called if there is one; what it raises is
\* caught by the loop's except Exception
RECURSIVE S_common_phase(_, _, _)
S_common_phase(r, i, c) ==
    IF i > Len(common_files)
    THEN [events |-> << >>, sections |-> << >>]
    ELSE LET hit  == repo_files_get(r, lower(common_files[i]))
             rest == S_common_phase(r, i + 1, c)
         IN  IF hit = << >>
             THEN rest
             ELSE IF readable_early(hit[1])
                  THEN [events   |-> (IF c = "returned" THEN << Event(5, "common") >> ELSE << >>)
                                         \o rest.events,
                        sections |-> << Section(hit[1], "content") >> \o rest.sections]
                  ELSE [events   |-> rest.events,
                        sections |-> << Section(hit[1], "header") >> \o rest.sections]

\* process_file: the section is appended and file_count incremented before the
\* callback is called; what the callback raises leaves process_file
S_process_file(f, total, st, c) ==
    IF InCommonFiles(f.name)
    THEN st
    ELSE LET fc == st.file_count + 1
         IN  [st EXCEPT
                !.file_count = fc,
                !.sections = Append(@, Section(f, IF readable_late(f) THEN "content" ELSE "header")),
                !.events = IF total > 0 /\ c = "returned"
                           THEN Append(@, Event(PyScaled(fc, total, 90) + 10, "file"))
                           ELSE @,
                !.escaped = IF total > 0 /\ c = "raised" THEN @ + 1 ELSE @]

\* trace_repo: whatever file_callback raises is caught by the except clauses of
\* the entry's try and the loop goes on with the next entry
RECURSIVE S_trace_repo(_, _, _, _, _)
S_trace_repo(files, i, total, st, c) ==
    IF i > Len(files)
    THEN st
    ELSE LET f == files[i]
         IN  IF \/ is_ignored(f.name)
                \/ ~is_text_file(f.name)
                \/ ~is_file_at_trace(f)
                \/ f.size > MAX_FILE_SIZE
             THEN S_trace_repo(files, i + 1, total, st, c)
             ELSE IF over_budget(st, f)
                  THEN S_trace_repo(files, after_ceiling(files, i), total,
                           [st EXCEPT !.stopped = TRUE], c)
                  ELSE S_trace_repo(files, i + 1, total,
                           S_process_file(f, total,
                               [st EXCEPT !.total_files = @ + 1, !.total_size = @ + f.size], c),
                           c)

S_generate_markdown_digest(r, c) ==
    LET cp == S_common_phase(r, 1, c)
        t  == S_trace_repo(walk(r), 1, pre_count(r),
                  [total_files |-> 0, total_size |-> 0, file_count |-> 0, stopped |-> FALSE,
                   escaped |-> 0, events |-> cp.events, sections |-> cp.sections], c)
    IN  [events |-> t.events, sections |-> t.sections, stopped |-> t.stopped,
         tree |-> { }, raised |-> FALSE]

\* src/converter.py: a missing callback is replaced by a no-op; the first call
\* is made before anything is built and none of the calls is inside a try, so a
\* callback that raises ends generate_markdown_digest there
SR_generate_markdown_digest(r, c) ==
    IF c = "raised"
    THEN [events |-> << >>, sections |-> << >>, stopped |-> FALSE, tree |-> { }, raised |-> TRUE]
    ELSE LET d == R_generate_markdown_digest(r)
         IN  [events   |-> IF c = "returned" THEN d.events ELSE << >>,
              sections |-> d.sections, stopped |-> d.stopped,
              tree     |-> d.tree, raised |-> d.raised]

RunWithSink(cv, r, kind) ==
    IF cv = "app"
    THEN S_generate_markdown_digest(r, sink_call(kind))
    ELSE SR_generate_markdown_digest(r, sink_call(kind))

\* generate_markdown_digest is run once more over the same tree with a sink whose
\* enqueue raises, or with none
GenWithSink ==
    /\ gen_pc = "returned"
    /\ \E kind \in SinkKinds \ { "working" } :
          /\ gen_pc' = IF kind = "absent" THEN "reran_absent" ELSE "reran_failing"
          /\ rerun' = RunWithSink(converter, repo, kind)
    /\ UNCHANGED << converter, repo, cloned, handler_pc, sender_pc, worker_pc, produced,
                    progress_queue, unfinished_tasks, sends, client_gone, client_state,
                    ws_open, send_faults, stop_mark, sink, digest, job >>

SinkNext == DigestNext \/ GenWithSink

SinkSpec == ScanInit /\ [][SinkNext]_vars

----------------------------------------------------------------------------
(* Properties *)

IsTerminal(m) == m.type \in { "digest_complete", "error" }
FromWorker(m) == m.type = "progress" /\ m.seq > 0
IsProgressItem(m) == m.type = "progress"

\* number of terminal messages that reached the client
Terminals == Len(SelectSeq(delivered, IsTerminal))
\* progress events waiting in the queue
PendingEvents == Len(SelectSeq(progress_queue, IsProgressItem))
\* the sender task ended because a send raised a disconnect
SenderStoppedOnDisconnect == stop_mark >= 0
\* files the worker went on to process after the sender stopped on a disconnect
FilesAfterStop ==
    Cardinality({ k \in (stop_mark + 1)..produced : k >= 1 /\ WorkerEvents[k].kind = "file" })

\* C1: once the sender task has stopped because a send raised a disconnect, the
\* session handler eventually returns, however many events the worker still
\* produces.
C1_DisconnectedSessionReturns == SenderStoppedOnDisconnect ~> (handler_pc = "returned")

\* C2: no progress message reaches the client after a terminal message
\* (digest_complete or error) has.
C2_NoProgressAfterTerminal ==
    \A i, j \in 1..Len(delivered) :
        (i < j /\ IsTerminal(delivered[i])) => delivered[j].type # "progress"

\* C3 as stated: a session that has ended and whose client never disconnected
\* sent exactly one terminal message.
C3_ExactlyOneTerminal == (handler_pc = "returned" /\ ~client_gone) => Terminals = 1

\* C3 as amended: no session sends two terminal messages, and a session that has
\* ended, whose client never disconnected, sent one unless the send of the
\* error message itself raised.
C3_OneTerminalUnlessErrorSendRaised ==
    /\ Terminals <= 1
    /\ (handler_pc = "returned" /\ ~client_gone /\ Terminals = 0)
          => \E i \in 1..Len(sends) : sends[i].type = "error" /\ sends[i].outcome = "error"

\* the send of digest_complete raised, the error message went out in its place,
\* and the handler has returned with the client still there
C3_Witness ==
    /\ handler_pc = "returned"
    /\ ~client_gone
    /\ Terminals = 1
    /\ \E i \in 1..Len(sends) : sends[i].type = "digest_complete" /\ sends[i].outcome = "error"

\* C4: the percentages of the messages that reach the client never decrease.
C4_DeliveredPercentagesNonDecreasing ==
    \A i, j \in 1..Len(delivered) :
        i < j => delivered[i].percentage <= delivered[j].percentage

\* C5: when generate_markdown_digest returns after reporting progress, the last
\* percentage it gave the progress sink is 100.
C5_SinkEndsAt100 ==
    (gen_pc = "returned" /\ sink # << >>) => sink[Len(sink)] = 100

\* C6: a slow consumer throttles the producer.  While the sender is still busy
\* with the first event of a run of three or more, the worker has not been able
\* to enqueue every other event of the run behind it: whatever capacity below
\* the run's length the queue has, a push has blocked before that.
C6_SlowConsumerThrottlesProducer ==
    (/\ sender_pc = "sending"
     /\ Len(WorkerEvents) >= 3
     /\ PendingEvents = produced - 1)
        => produced < Len(WorkerEvents)

\* C7: the worker's events reach the client in the order the worker produced them.
C7_DeliveredInProductionOrder ==
    \A i, j \in 1..Len(delivered) :
        (i < j /\ FromWorker(delivered[i]) /\ FromWorker(delivered[j]))
            => delivered[i].seq < delivered[j].seq

\* three of the worker's events have reached the client
C7_Witness == Len(SelectSeq(delivered, FromWorker)) >= 3

\* C8: the handler sends digest_complete only when the sender has taken the
\* sentinel and ended on it, every item put on the queue is marked done and
\* nothing is left in the queue.
C8_CompleteOnlyAfterDrain ==
    (\/ handler_pc = "send_complete"
     \/ \E i \in 1..Len(sends) : sends[i].type = "digest_complete")
        => /\ sender_pc = "done"
           /\ ~SenderStoppedOnDisconnect
           /\ unfinished_tasks = 0
           /\ progress_queue = << >>

\* digest_complete has reached the client after two or more forwarded events
C8_Witness ==
    /\ \E i \in 1..Len(delivered) : delivered[i].type = "digest_complete"
    /\ Len(SelectSeq(delivered, FromWorker)) >= 2

\* C9: in a session that delivered digest_complete, every event the worker
\* produced was delivered.
C9_NoEventLost ==
    (\E i \in 1..Len(delivered) : delivered[i].type = "digest_complete")
        => \A k \in 1..Len(WorkerEvents) :
              \E i \in 1..Len(delivered) : FromWorker(delivered[i]) /\ delivered[i].seq = k

\* C10: after the sender has stopped on a disconnect the worker finishes at most
\* the file it is on.
C10_WorkerStopsAfterDisconnect == SenderStoppedOnDisconnect => FilesAfterStop <= 1

\* C11: once a send has raised a disconnect, nothing more is sent or attempted on
\* the websocket in that session.
C11_NoSendAfterDisconnect ==
    \A i, j \in 1..Len(sends) : i < j => sends[i].outcome # "disconnect"

\* the terminal message was handed to send_text and that call raised
TerminalSendRaised ==
    \E i \in 1..Len(sends) : IsTerminal(sends[i]) /\ sends[i].outcome # "ok"

\* C12 as stated: in a session whose client stays connected the handler
\* eventually returns with a terminal message delivered.
C12_ConnectedSessionDeliversTerminal ==
    <>(client_gone \/ (handler_pc = "returned" /\ Terminals >= 1))

\* C12 as amended: in a session whose client stays connected the handler
\* eventually returns, with exactly one terminal message delivered unless the
\* send of the error message itself raised.
C12_ConnectedSessionReturns ==
    <>(client_gone \/ (/\ handler_pc = "returned"
                       /\ (Terminals = 1
                             \/ \E i \in 1..Len(sends) :
                                   sends[i].type = "error" /\ sends[i].outcome = "error")))

\* a session run to its end with the client there: the worker returned, the sender
\* ended on the sentinel, both waits completed and digest_complete went out last
C12_Witness ==
    /\ handler_pc = "returned"
    /\ ~client_gone
    /\ worker_pc = "returned"
    /\ sender_pc = "done"
    /\ unfinished_tasks = 0
    /\ delivered # << >>
    /\ delivered[Len(delivered)].type = "digest_complete"
    /\ ~TerminalSendRaised

\* the call of clone_repository is over and left no clone behind
CloneMissing == handler_pc \notin { "accept", "send_start", "clone" } /\ ~cloned

\* C13: when clone_repository has not produced the clone, the worker is never
\* started on the clone directory and digest_complete is never sent.
C13_CloneFailureEndsInError ==
    CloneMissing
        => /\ worker_pc = "idle"
           /\ \A i \in 1..Len(sends) : sends[i].type # "digest_complete"

RECURSIVE SumSizes(_)
SumSizes(fs) == IF fs = << >> THEN 0 ELSE Head(fs).size + SumSizes(Tail(fs))

\* a finished run of the budgeted engine (src/app/converter.py)
AppRunOver == gen_pc = "returned" /\ converter = "app"

\* C14: a traversal never admits more than MAX_FILES files nor more than
\* MAX_TOTAL_SIZE_BYTES bytes: the two counters stay within the ceilings, and the
\* files handed to the callback are as many and as large as the counters say.
C14_CountersWithinCeilings ==
    AppRunOver
        => /\ digest.stats.total_files <= MAX_FILES
           /\ digest.stats.total_size <= MAX_TOTAL_SIZE_BYTES
           /\ Len(digest.admitted) = digest.stats.total_files
           /\ SumSizes(digest.admitted) = digest.stats.total_size

\* a traversal that reached the file ceiling and met one more eligible file
C14_Witness ==
    /\ AppRunOver
    /\ digest.stopped
    /\ digest.stats.total_files = MAX_FILES

SamePath(a, b) == a.dir = b.dir /\ a.name = b.name

\* the entries the walk lists after the one trace_repo returned on
LaterInWalk == { j \in 1..Len(walk(repo)) : j > digest.stopped_at }

\* the file could still have been admitted when the traversal returned
WouldFit(f) ==
    /\ ~is_ignored(f.name) /\ is_text_file(f.name) /\ is_file_at_trace(f)
    /\ f.size <= MAX_FILE_SIZE
    /\ digest.stats.total_files < MAX_FILES
    /\ digest.stats.total_size + f.size <= MAX_TOTAL_SIZE_BYTES

\* C15 as stated: once a ceiling has stopped the traversal, no file the walk
\* lists later is admitted or has a section in the digest.
C15_NothingLaterInDigest ==
    (AppRunOver /\ digest.stopped)
        => \A j \in LaterInWalk :
              /\ \A k \in 1..Len(digest.admitted) : ~SamePath(digest.admitted[k], walk(repo)[j])
              /\ \A k \in 1..Len(digest.sections) : ~SamePath(digest.sections[k], walk(repo)[j])

\* C15 as amended: once a ceiling has stopped the traversal, no file the walk
\* lists later is admitted or handed to the callback, and the only sections
\* such a file can have are those written before the traversal began (the
\* common documents of the root).
C15_NothingLaterAdmitted ==
    (AppRunOver /\ digest.stopped)
        => \A j \in LaterInWalk :
              /\ \A k \in 1..Len(digest.admitted) : ~SamePath(digest.admitted[k], walk(repo)[j])
              /\ \A k \in 1..Len(digest.sections) :
                    SamePath(digest.sections[k], walk(repo)[j]) => k <= digest.common_sections

\* the traversal returned on a file too large for what was left of the budget,
\* with a file behind it that would still have fitted
C15_Witness ==
    /\ AppRunOver
    /\ digest.stopped
    /\ \E j \in LaterInWalk : WouldFit(walk(repo)[j])

\* the repository cut off just before the file the traversal returned on
ScannedPart == SubSeq(walk(repo), 1, digest.stopped_at - 1)

\* C16: a digest cut short by a ceiling can be told from the digest of a complete
\* scan: it differs from the digest of the repository that holds only the files
\* listed before the one the traversal returned on, which is scanned in full.
C16_TruncationIsNoted ==
    (AppRunOver /\ digest.stopped)
        => /\ ~generate_markdown_digest(ScannedPart).stopped
           /\ digest_lines(digest) # digest_lines(generate_markdown_digest(ScannedPart))

\* the per-file ceiling of the engine in use
FileCeiling == IF converter = "app" THEN MAX_FILE_SIZE ELSE R_MAX_FILE_SIZE

\* C17: a file larger than the per-file ceiling has no content section in the
\* digest.
C17_OversizeFileHasNoContent ==
    gen_pc = "returned"
        => \A i \in 1..Len(repo) : \A k \in 1..Len(digest.sections) :
              (repo[i].size > FileCeiling /\ SamePath(digest.sections[k], repo[i]))
                  => digest.sections[k].body # "content"

\* a file the budgeted engine is meant to digest: a readable regular text file,
\* not ignored, within the per-file ceiling
Eligible(f) ==
    /\ NotIgnoredDir(f) /\ ~is_ignored(f.name) /\ is_text_file(f.name)
    /\ f.fs = "ok"
    /\ f.size <= MAX_FILE_SIZE
EligibleFiles == SelectSeq(repo, Eligible)
AllFit == Len(EligibleFiles) <= MAX_FILES /\ SumSizes(EligibleFiles) <= MAX_TOTAL_SIZE_BYTES

\* number of content sections the digest has for the file
ContentSections(f) ==
    Cardinality({ k \in 1..Len(digest.sections) :
                    SamePath(digest.sections[k], f) /\ digest.sections[k].body = "content" })

\* C18: when the eligible files all fit under the ceilings, the digest has exactly
\* one content section for each of them.
C18_OneSectionPerEligibleFile ==
    (AppRunOver /\ AllFit)
        => \A i \in 1..Len(EligibleFiles) : ContentSections(EligibleFiles[i]) = 1

\* position of the relative path of f among the model's paths in lexicographic
\* (code point) order: LICENSE < README.md < docs/README.md < logo.png <
\* main.py < readme.md < src/main.py
path_rank(f) ==
    CASE f.dir = ""     /\ f.name = "LICENSE"   -> 1
      [] f.dir = ""     /\ f.name = "README.md" -> 2
      [] f.dir = "docs" /\ f.name = "README.md" -> 3
      [] f.dir = ""     /\ f.name = "logo.png"  -> 4
      [] f.dir = ""     /\ f.name = "main.py"   -> 5
      [] f.dir = ""     /\ f.name = "readme.md" -> 6
      [] f.dir = "src"  /\ f.name = "main.py"   -> 7

HasContent(sec) == sec.body = "content"

\* C19: the content sections of the digest are in lexicographic order of their
\* paths: none comes before a section whose path sorts earlier.
C19_SectionsInPathOrder ==
    gen_pc = "returned"
        => LET cs == SelectSeq(digest.sections, HasContent)
           IN  \A i, j \in 1..Len(cs) : i < j => path_rank(cs[i]) <= path_rank(cs[j])

\* no entry of the tree changes between or during the runs
TreeUnchanged == \A i \in 1..Len(repo) : repo[i].fs # "vanished"

\* C20: a second run over the same unchanged tree returns the same digest,
\* whatever order the filesystem lists the entries in.
C20_RerunGivesSameDigest ==
    (gen_pc = "reran" /\ TreeUnchanged) => digest_lines(rerun) = digest_lines(digest)

\* a priority document: a file at the repository root whose name matches an
\* entry of common_files in some letter case
IsPriorityDoc(f) ==
    f.dir = "" /\ \E i \in 1..Len(common_files) : lower(common_files[i]) = lower(f.name)

\* the positions of the sections the digest has for the file
SectionsOf(f) == { k \in 1..Len(digest.sections) : SamePath(digest.sections[k], f) }

\* C21: a priority document present at the root has one section in the digest,
\* and only sections of priority documents come before it.
C21_PriorityDocsFirstAndOnce ==
    AppRunOver
        => \A i \in 1..Len(repo) :
              (IsPriorityDoc(repo[i]) /\ repo[i].fs = "ok")
                  => /\ Cardinality(SectionsOf(repo[i])) = 1
                     /\ \A k \in SectionsOf(repo[i]) : \A j \in 1..(k - 1) :
                           IsPriorityDoc(digest.sections[j])

\* the call of generate_markdown_digest is over
RunOver == gen_pc \in { "returned", "raised" }

\* the ignore set of directories of the engine in use
IgnoredDirs == IF converter = "app" THEN IGNORED_DIRS ELSE R_IGNORED_DIRS

\* the file is somewhere in what the run produced or visited: a section, a line
\* of the tree listing, a call of the file callback
InDigest(f) ==
    \/ \E k \in 1..Len(digest.sections) : SamePath(digest.sections[k], f)
    \/ \E t \in digest.tree : SamePath(t, f)
Visited(f) ==
    converter = "app" /\ \E k \in 1..Len(digest.admitted) : SamePath(digest.admitted[k], f)

NameOrExtensionIgnored(f) ==
    LET ign == IF converter = "app" THEN IGNORED_FILES ELSE R_IGNORED_FILES
    IN  f.name \in ign \/ lower(suffix(f.name)) \in ign

\* C23: a file whose name or extension is in the ignore set is in no section and
\* no tree line of the digest.
C23_IgnoredFilesAbsent ==
    RunOver
        => \A i \in 1..Len(repo) : NameOrExtensionIgnored(repo[i]) => ~InDigest(repo[i])

\* C24: a directory entry that is a symbolic link is never read into a content
\* section.
C24_SymlinksNotFollowed ==
    RunOver
        => \A i \in 1..Len(repo) :
              repo[i].fs \in { "symlink", "looped", "broken" } => ContentSections(repo[i]) = 0

\* number of directories between the repository root and the file
dir_depth(d) ==
    CASE d = ""    -> 0
      [] d = "a/b" -> 2
      [] OTHER     -> 1

\* C25: no file deeper than MAX_DIRECTORY_DEPTH is handed to the callback or has
\* a section in the digest.
C25_DepthCeilingPrunes ==
    AppRunOver
        => \A i \in 1..Len(repo) :
              dir_depth(repo[i].dir) > MAX_DIRECTORY_DEPTH
                  => (~InDigest(repo[i]) /\ ~Visited(repo[i]))

\* the entry's stat or open fails: a dangling or self-referential link, a file
\* gone or made unreadable after it was listed
EntryFails(f) == f.fs \in { "broken", "looped", "vanished", "unreadable" }

\* C26: a failing entry never makes the digest operation raise, and every
\* readable text file beside it still has its content section.
C26_EntryErrorsSkipOnlyEntry ==
    RunOver
        => /\ ~digest.raised
           /\ \A i, j \in 1..Len(repo) :
                 ( /\ EntryFails(repo[i])
                   /\ repo[j].fs = "ok" /\ repo[j].dir = "" /\ repo[j].name = "main.py" )
                     => ContentSections(repo[j]) >= 1

\* the file was listed as a regular text file and was gone or unreadable when
\* the content pass came to read it
LostBeforeRead(f) ==
    /\ f.fs \in { "vanished", "unreadable" }
    /\ f.dir \notin IgnoredDirs
    /\ ~NameOrExtensionIgnored(f)
    /\ lower(suffix(f.name)) \in (IF converter = "app" THEN TEXT_EXTS ELSE R_TEXT_EXTS)

\* C27: a file lost between enumeration and read does not make the run raise
\* and has a section in the digest whose body is a placeholder note.
C27_LostFileHasPlaceholder ==
    RunOver
        => \A i \in 1..Len(repo) :
              LostBeforeRead(repo[i])
                  => /\ ~digest.raised
                     /\ \E k \in 1..Len(digest.sections) :
                           /\ SamePath(digest.sections[k], repo[i])
                           /\ digest.sections[k].body = "placeholder"

\* C28: every percentage handed to the progress sink is an integer from 0 to 100.
C28_PercentagesWithinRange ==
    \A k \in 1..Len(sink) : sink[k] \in 0..100

\* a finished run of the budgeted engine that emitted a priority document,
\* stopped on a ceiling and reported progress for a file before that
C28_Witness ==
    /\ AppRunOver
    /\ digest.stopped
    /\ digest.common_sections >= 1
    /\ digest.file_count >= 1
    /\ Len(sink) = Len(digest.events)
    /\ Len(sink) >= 2

\* C29: over a repository whose files stay as they were listed, the total the
\* percentage is divided by is the number of files the content pass processed.
C29_TotalEqualsProcessed ==
    (AppRunOver /\ \A i \in 1..Len(repo) : repo[i].fs = "ok")
        => digest.total_files = digest.file_count

\* the text allow-list of the engine in use, entries as written in the source
TextExts == IF converter = "app" THEN TEXT_EXTS ELSE R_TEXT_EXTS

\* a regular file, not a link, outside the ignore sets and not one of the
\* priority documents, which are emitted whatever their extension
PlainCandidate(f) ==
    /\ f.fs = "ok"
    /\ f.dir \notin IgnoredDirs
    /\ ~NameOrExtensionIgnored(f)
    /\ ~IsPriorityDoc(f)
    /\ f.size <= (IF converter = "app" THEN MAX_FILE_SIZE ELSE R_MAX_FILE_SIZE)

\* C30: when the run did not stop on a ceiling, a plain candidate file has a
\* content section exactly when its extension, as written, is an entry of the
\* text allow-list.
C30_EligibleIffExtensionListed ==
    (gen_pc = "returned" /\ ~digest.stopped)
        => \A i \in 1..Len(repo) :
              PlainCandidate(repo[i])
                  => (ContentSections(repo[i]) >= 1 <=> suffix(repo[i].name) \in TextExts)

\* the sender task ended by taking the sentinel, not on a disconnect
SenderStoppedOnSentinel == sender_pc = "done" /\ stop_mark = -1

\* C31: the sentinel is on the queue only once the worker has returned and made
\* all its callbacks, nothing is ever queued behind it, and the queue is empty
\* once the sender has stopped on it.
C31_SentinelIsLastItem ==
    /\ \A k \in 1..Len(progress_queue) :
          progress_queue[k].type = "None"
              => /\ k = Len(progress_queue)
                 /\ worker_pc = "returned"
                 /\ produced = Len(WorkerEvents)
    /\ SenderStoppedOnSentinel => progress_queue = << >>

\* the sender has forwarded at least two of the worker's events and then
\* stopped on the sentinel
C31_Witness ==
    /\ SenderStoppedOnSentinel
    /\ produced >= 2
    /\ Cardinality({ k \in 1..Len(sends) : sends[k].seq > 0 }) = produced

\* the handler coroutine writes to the websocket in this step
HandlerSends ==
    /\ handler_pc \in { "send_start", "send_cloned", "send_complete", "send_error" }
    /\ handler_pc' # handler_pc
    /\ Len(sends') = Len(sends) + 1

\* the sender task has been created and has neither finished nor been cancelled
SenderAlive == sender_pc \in { "get", "sending" }

\* the sender task is inside its send-and-mark-done step, or has a progress
\* event waiting on the queue that it will send next
SenderHasWork ==
    /\ SenderAlive
    /\ \/ sender_pc = "sending"
       \/ (progress_queue # << >> /\ Head(progress_queue).type = "progress")

\* C32: the handler coroutine never writes to the websocket while the sender
\* task is alive with a progress event in hand or waiting on the queue.
C32_OneWriterAtATime ==
    [][HandlerSends => ~SenderHasWork]_vars

\* C33: once the handler has returned, the sender task is finished or cancelled
\* and the websocket is closed.
C33_NothingOutlivesSession ==
    handler_pc = "returned" => (~SenderAlive /\ ~ws_open)

\* the handler returned through the error path and had to cancel a sender task
\* that was still waiting on the queue, with the client still connected
C33_Witness ==
    /\ handler_pc = "returned"
    /\ sender_pc = "cancelled"
    /\ ~client_gone
    /\ ~ws_open

\* C34: a run whose sink fails on every enqueue, or that has no sink, returns
\* the digest the run with the working sink returned: the same sections in the
\* same order, the same tree, and no exception.
C34_SinkFailureLeavesDigestAlone ==
    gen_pc \in { "reran_failing", "reran_absent" }
        => /\ ~rerun.raised
           /\ digest_lines(rerun) = digest_lines(digest)
           /\ rerun.tree = digest.tree
           /\ rerun.stopped = digest.stopped

\* a run with a failing sink over a repository for which the working sink was
\* called for a file and the digest has a content section
C34_Witness ==
    /\ gen_pc = "reran_failing"
    /\ Len(digest.events) >= 1
    /\ \E k \in 1..Len(digest.sections) : HasContent(digest.sections[k])
    /\ \E k \in 1..Len(rerun.sections) : HasContent(rerun.sections[k])

====
